---- MODULE Spec2Model ----
(***************************************************************************)
(* The invoices resource of the dashboard application described in         *)
(* LEARNING/dashboard-app.md: the server actions of /app/lib/actions.ts    *)
(* (createInvoice, updateInvoice, deleteInvoice) working on the invoices   *)
(* table, and the queries of /app/lib/data.ts that read it.                *)
(*                                                                         *)
(* Numbers are JavaScript numbers in the source.  They are modelled as     *)
(* exact decimal fractions with MaxFracDigits fractional digits, held as   *)
(* an integer count of 10^-MaxFracDigits units; the binary rounding of     *)
(* IEEE doubles is not modelled.  The invoices table stores the value the  *)
(* statement passes (the source gives the column no type).                 *)
(***************************************************************************)
EXTENDS Integers, Sequences, FiniteSets, TLC

VARIABLES invoices, nextId, today, ops, last, view,
          url, search, nav, props, par, home, dash

\* the presentation layer: the browser's URL, the search box, the last
\* navigation, what the invoices page handed down, the fetches in flight
uiVars == <<url, search, nav, props, par>>

\* the home page of the React project (app/page.jsx) and the dashboard
\* overview page
appVars == <<home, dash>>

vars == <<invoices, nextId, today, ops, last, view, uiVars, appVars>>

\* ---------------------------------------------------------------- bounds
MaxOps == 2
MaxFracDigits == 3
MaxDays == 1
MaxRows == 13
MaxPage == 4
MaxKeys == 3
MaxClicks == 5
MaxTitleLen == 3
MaxClock == 5

Scale == 10 ^ MaxFracDigits

\* ------------------------------------------------------- form input text
\* formData.get(name): null when the field is absent, else its text
Absent == [present |-> FALSE, text |-> <<>>]
Field(t) == [present |-> TRUE, text |-> t]

NaN == [nan |-> TRUE, v |-> 0]
Num(v) == [nan |-> FALSE, v |-> v]

IsDigit(c) == c \in {"0", "1", "2", "3", "4", "5", "6", "7", "8", "9"}

DigitVal(c) ==
  CASE c = "0" -> 0 [] c = "1" -> 1 [] c = "2" -> 2 [] c = "3" -> 3
    [] c = "4" -> 4 [] c = "5" -> 5 [] c = "6" -> 6 [] c = "7" -> 7
    [] c = "8" -> 8 [] c = "9" -> 9

RECURSIVE DigitsVal(_)
DigitsVal(s) ==
  IF s = <<>> THEN 0
  ELSE 10 * DigitsVal(SubSeq(s, 1, Len(s) - 1)) + DigitVal(s[Len(s)])

AllDigits(s) == \A i \in 1..Len(s) : IsDigit(s[i])

\* position of the first "." of s, Len(s) + 1 when there is none
DotPos(s) ==
  IF \E i \in 1..Len(s) : s[i] = "."
  THEN CHOOSE i \in 1..Len(s) : s[i] = "." /\ \A j \in 1..(i - 1) : s[j] # "."
  ELSE Len(s) + 1

\* Number(text) for decimal literals: the empty string is 0, an optional
\* sign, digits, an optional fraction; anything else is NaN
StringToNumber(s) ==
  IF s = <<>> THEN Num(0)
  ELSE
    LET signed == s[1] \in {"-", "+"}
        body == IF signed THEN SubSeq(s, 2, Len(s)) ELSE s
        dot == DotPos(body)
        ip == SubSeq(body, 1, dot - 1)
        fp == SubSeq(body, dot + 1, Len(body))
        mag == DigitsVal(ip) * Scale
               + DigitsVal(fp) * 10 ^ (MaxFracDigits - Len(fp))
    IN IF AllDigits(ip) /\ AllDigits(fp) /\ Len(ip) + Len(fp) > 0
          /\ Len(fp) <= MaxFracDigits
       THEN Num(IF signed /\ s[1] = "-" THEN 0 - mag ELSE mag)
       ELSE NaN

\* Number(value): Number(null) is 0
ToNumber(f) == IF f.present THEN StringToNumber(f.text) ELSE Num(0)

\* ------------------------------------------------------------ the schema
InvoiceStatus == {"pending", "paid"}

\* z.string(): the value must be a string (null is not)
ZString(f) == f.present

\* z.coerce.number(): Number(value) must not be NaN
ZCoerceNumber(f) == ~ToNumber(f).nan

\* z.enum(['pending', 'paid'])
ZEnum(f) == f.present /\ f.text \in InvoiceStatus

\* a schema that lets every input through
FormSchemaIssuesNone(formData) == {}

\* FormSchema.omit({ id: true, date: true }): the fields in error
FormSchemaIssues(formData) ==
  (IF ZString(formData.customerId) THEN {} ELSE {"customerId"})
    \cup (IF ZCoerceNumber(formData.amount) THEN {} ELSE {"amount"})
    \cup (IF ZEnum(formData.status) THEN {} ELSE {"status"})

\* amount * 100
AmountInCents(amount) == amount * 100

\* ---------------------------------------------------------- seeded data
FirstDay == 20221206

Customers == {
  [id |-> "c1", name |-> <<"A", "d", "a">>,
   email |-> <<"a", "d", "a", "@", "x", ".", "i", "o">>],
  [id |-> "c2", name |-> <<"B", "o">>,
   email |-> <<"b", "o", "@", "y", ".", "i", "o">>]}

SeedInvoices == {
  [id |-> 1, customer_id |-> "c1", amount |-> 15795 * Scale,
   status |-> "pending", date |-> 20221206],
  [id |-> 2, customer_id |-> "c2", amount |-> 20348 * Scale,
   status |-> "pending", date |-> 20221114]}

\* --------------------------------------------------- inputs of the model
CustomerInputs == {Absent, Field("c1")}

AmountInputs == {
  Absent, Field(<<"a", "b", "c">>), Field(<<"0">>), Field(<<"-", "5">>),
  Field(<<"1", "0">>), Field(<<"1", ".", "0", "0", "5">>)}

StatusInputs == {Absent, Field("pending"), Field("paid"), Field("draft")}

\* the forms submitted: every amount with a customer and a status of the
\* form's own controls, and the forms with a field missing or foreign
FormDatas ==
  [customerId : {Field("c1")}, amount : AmountInputs,
   status : {Field("pending"), Field("paid")}]
    \cup [customerId : CustomerInputs, amount : {Field(<<"1", "0">>)},
          status : StatusInputs]
    \cup {[customerId |-> Absent, amount |-> Field(<<"a", "b", "c">>),
           status |-> Field("draft")]}

\* the identifiers given to a request: every one handed out so far and one
\* that never was
IdInputs == 1..nextId

\* ------------------------------------------------- URLSearchParams
\* a parameter list is a sequence of <<name, value>> pairs of texts
InvoicesPath == <<"/", "d", "a", "s", "h", "b", "o", "a", "r", "d", "/",
                  "i", "n", "v", "o", "i", "c", "e", "s">>

QueryName == <<"q", "u", "e", "r", "y">>
PageName == <<"p", "a", "g", "e">>
SortName == <<"s", "o", "r", "t">>

\* application/x-www-form-urlencoded: one character of a name or value
EncodeChar(c) ==
  CASE c = " " -> <<"+">>
    [] c = "&" -> <<"%", "2", "6">>
    [] c = "=" -> <<"%", "3", "D">>
    [] c = "+" -> <<"%", "2", "B">>
    [] c = "%" -> <<"%", "2", "5">>
    [] OTHER -> <<c>>

RECURSIVE Encode(_)
Encode(t) == IF t = <<>> THEN <<>> ELSE EncodeChar(Head(t)) \o Encode(Tail(t))

DecodeEscape(e) ==
  CASE e = <<"2", "6">> -> <<"&">>
    [] e = <<"3", "D">> -> <<"=">>
    [] e = <<"2", "B">> -> <<"+">>
    [] e = <<"2", "5">> -> <<"%">>
    [] e = <<"2", "0">> -> <<" ">>
    [] OTHER -> <<"%">> \o e

RECURSIVE Decode(_)
Decode(t) ==
  IF t = <<>> THEN <<>>
  ELSE IF Head(t) = "+" THEN <<" ">> \o Decode(Tail(t))
  ELSE IF Head(t) = "%" /\ Len(t) >= 3
       THEN DecodeEscape(SubSeq(t, 2, 3)) \o Decode(SubSeq(t, 4, Len(t)))
  ELSE <<Head(t)>> \o Decode(Tail(t))

\* the position of the first c in t, Len(t) + 1 when there is none
IndexOf(t, c) ==
  IF \E i \in 1..Len(t) : t[i] = c
  THEN CHOOSE i \in 1..Len(t) : t[i] = c /\ \A j \in 1..(i - 1) : t[j] # c
  ELSE Len(t) + 1

\* params.toString()
RECURSIVE ParamsToString(_)
ParamsToString(params) ==
  IF params = <<>> THEN <<>>
  ELSE Encode(Head(params)[1]) \o <<"=">> \o Encode(Head(params)[2])
         \o (IF Len(params) > 1 THEN <<"&">> ELSE <<>>)
         \o ParamsToString(Tail(params))

\* new URLSearchParams(text): the pairs between the "&"
RECURSIVE ParseParams(_)
ParseParams(t) ==
  IF t = <<>> THEN <<>>
  ELSE LET amp == IndexOf(t, "&")
           piece == SubSeq(t, 1, amp - 1)
           eq == IndexOf(piece, "=")
           rest == ParseParams(SubSeq(t, amp + 1, Len(t)))
       IN IF piece = <<>> THEN rest
          ELSE <<<<Decode(SubSeq(piece, 1, eq - 1)),
                   Decode(SubSeq(piece, eq + 1, Len(piece)))>>>> \o rest

HasParam(params, name) == \E i \in 1..Len(params) : params[i][1] = name

\* params.get(name): the first value, null when there is none
GetParam(params, name) ==
  IF HasParam(params, name)
  THEN Field(params[CHOOSE i \in 1..Len(params) :
                      /\ params[i][1] = name
                      /\ \A j \in 1..(i - 1) : params[j][1] # name][2])
  ELSE Absent

\* params.delete(name)
RECURSIVE DeleteParam(_, _)
DeleteParam(params, name) ==
  IF params = <<>> THEN <<>>
  ELSE (IF Head(params)[1] = name THEN <<>> ELSE <<Head(params)>>)
         \o DeleteParam(Tail(params), name)

\* params.set(name, value): the first pair of the name takes the value and
\* the later ones go; with no such pair one is appended
SetParam(params, name, value) ==
  IF HasParam(params, name)
  THEN LET i == CHOOSE k \in 1..Len(params) :
                  /\ params[k][1] = name
                  /\ \A j \in 1..(k - 1) : params[j][1] # name
       IN SubSeq(params, 1, i - 1) \o <<<<name, value>>>>
            \o DeleteParam(SubSeq(params, i + 1, Len(params)), name)
  ELSE params \o <<<<name, value>>>>

\* `${pathname}?${params.toString()}`
MakeUrl(pathname, params) == pathname \o <<"?">> \o ParamsToString(params)

\* usePathname() and useSearchParams() of the URL in the address bar
Pathname(u) == SubSeq(u, 1, IndexOf(u, "?") - 1)

SearchParams(u) == ParseParams(SubSeq(u, IndexOf(u, "?") + 1, Len(u)))

\* ------------------------------------------------------------- the state
NoForm == [customerId |-> Absent, amount |-> Absent, status |-> Absent]

RevalidateInvoices == "revalidatePath('/dashboard/invoices')"
RedirectInvoices == "redirect('/dashboard/invoices')"

Ids(table) == {r.id : r \in table}

\* what one invocation of a server action did
Idle == [op |-> "none", id |-> 0, input |-> NoForm, issues |-> {},
         amount |-> NaN, written |-> 0, dbFailed |-> FALSE,
         idsBefore |-> {}, events |-> <<>>, outcome |-> "none",
         error |-> "none"]

\* what the last query of the data layer returned
NoView == [fn |-> "none", query |-> <<>>, page |-> 0, rows |-> <<>>,
           totalPages |-> 0, at |-> 0]

NoSearch == [pending |-> FALSE, term |-> <<>>, elapsed |-> 0, keys |-> 0,
             runs |-> 0]

NoNav == [by |-> "none", arg |-> <<>>, from |-> <<>>, waited |-> 0]

NoProps == [rendered |-> FALSE, from |-> <<>>, query |-> <<>>,
            currentPage |-> NaN, key |-> <<>>]

\* the four values of fetchCardData
NoCardData ==
  [numberOfInvoices |-> 0, numberOfCustomers |-> 0, totalPaidInvoices |-> 0,
   totalPendingInvoices |-> 0]

NoPar ==
  [who |-> "none", id |-> 0, pc |-> "done", started |-> <<>>,
   settled |-> <<>>, state |-> "none", data |-> NoCardData]

\* <Header> and <LikeButton> of the home page: the title passed, the h1
\* rendered, the likes React holds, the likes of the last render, the
\* updates queued and the clicks made
NoHome ==
  [passed |-> Absent, h1 |-> <<>>, rendered |-> FALSE, state |-> 0,
   likes |-> 0, queue |-> <<>>, clicks |-> 0]

\* the dashboard overview page: which version of it runs, where it is,
\* the fetches begun and finished in order, whether the page's UI is
\* shown and since when, what is in the place of the revenue chart, how
\* often its fallback came up, the seconds gone by and the second
\* fetchRevenue began at
NoDash ==
  [version |-> "none", pc |-> "done", events |-> <<>>, ui |-> FALSE,
   shownAt |-> 0, chart |-> "none", fallbacks |-> 0, clock |-> 0,
   began |-> 0]

InitApp == home = NoHome /\ dash = NoDash

InitUi ==
  /\ url = InvoicesPath
  /\ search = NoSearch
  /\ nav = NoNav
  /\ props = NoProps
  /\ par = NoPar
  /\ InitApp

Init ==
  /\ invoices = SeedInvoices
  /\ nextId = Cardinality(SeedInvoices) + 1
  /\ today \in FirstDay..(FirstDay + MaxDays)
  /\ ops = 0
  /\ last = Idle
  /\ view = NoView
  /\ InitUi

\* ------------------------------------------------------- storage effects
\* INSERT INTO invoices (customer_id, amount, status, date) VALUES (...)
Insert(table, id, customerId, amount, status, date) ==
  table \cup {[id |-> id, customer_id |-> customerId, amount |-> amount,
               status |-> status, date |-> date]}

\* UPDATE invoices SET customer_id, amount, status WHERE id = ...
UpdateUpsert(table, id, customerId, amount, status) ==
  {r \in table : r.id # id}
    \cup {[id |-> id, customer_id |-> customerId, amount |-> amount,
           status |-> status, date |-> FirstDay]}

Update(table, id, customerId, amount, status) ==
  {IF r.id = id
   THEN [r EXCEPT !.customer_id = customerId, !.amount = amount,
                  !.status = status]
   ELSE r : r \in table}

\* DELETE FROM invoices WHERE id = ...
DeleteNoWhere(table, id) == {}

Delete(table, id) == {r \in table : r.id # id}

\* ------------------------------------------------------- server actions
\* the part of createInvoice and updateInvoice after the storage statement
AfterTryCatchNoRedirect(dbFails) ==
  (IF dbFails THEN <<"console.error">> ELSE <<>>) \o <<RevalidateInvoices>>

AfterTryCatchRedirectFirst(dbFails) ==
  (IF dbFails THEN <<"console.error">> ELSE <<>>)
    \o <<RedirectInvoices, RevalidateInvoices>>

AfterTryCatch(dbFails) ==
  (IF dbFails THEN <<"console.error">> ELSE <<>>)
    \o <<RevalidateInvoices, RedirectInvoices>>

createInvoice(formData, dbFails) ==
  LET issues == FormSchemaIssues(formData)
      amount == ToNumber(formData.amount)
      amountInCents == AmountInCents(amount.v)
      called == [Idle EXCEPT !.op = "createInvoice", !.input = formData,
                   !.issues = issues, !.amount = amount,
                   !.idsBefore = Ids(invoices)]
  IN /\ ops < MaxOps
     /\ ops' = ops + 1
     /\ UNCHANGED <<today, view, uiVars, appVars>>
     /\ IF issues # {}
        THEN \* CreateInvoice.parse throws
             /\ last' = [called EXCEPT !.outcome = "threw",
                           !.error = "ZodError"]
             /\ UNCHANGED <<invoices, nextId>>
        ELSE /\ invoices' = IF dbFails THEN invoices
                            ELSE Insert(invoices, nextId,
                                        formData.customerId.text,
                                        amountInCents, formData.status.text,
                                        today)
             /\ nextId' = IF dbFails THEN nextId ELSE nextId + 1
             /\ last' = [called EXCEPT
                           !.id = IF dbFails THEN 0 ELSE nextId,
                           !.written = amountInCents, !.dbFailed = dbFails,
                           !.events = <<"INSERT">> \o AfterTryCatch(dbFails),
                           !.outcome = "redirected"]

updateInvoice(id, formData, dbFails) ==
  LET issues == FormSchemaIssues(formData)
      amount == ToNumber(formData.amount)
      amountInCents == AmountInCents(amount.v)
      called == [Idle EXCEPT !.op = "updateInvoice", !.id = id,
                   !.input = formData, !.issues = issues,
                   !.amount = amount, !.idsBefore = Ids(invoices)]
  IN /\ ops < MaxOps
     /\ ops' = ops + 1
     /\ UNCHANGED <<today, nextId, view, uiVars, appVars>>
     /\ IF issues # {}
        THEN \* UpdateInvoice.parse throws
             /\ last' = [called EXCEPT !.outcome = "threw",
                           !.error = "ZodError"]
             /\ UNCHANGED invoices
        ELSE /\ invoices' = IF dbFails THEN invoices
                            ELSE Update(invoices, id,
                                        formData.customerId.text,
                                        amountInCents, formData.status.text)
             /\ last' = [called EXCEPT
                           !.written = amountInCents, !.dbFailed = dbFails,
                           !.events = <<"UPDATE">> \o AfterTryCatch(dbFails),
                           !.outcome = "redirected"]

deleteInvoice(id, dbFails) ==
  LET called == [Idle EXCEPT !.op = "deleteInvoice", !.id = id,
                   !.idsBefore = Ids(invoices)]
  IN /\ ops < MaxOps
     /\ ops' = ops + 1
     /\ UNCHANGED <<today, nextId, view, uiVars, appVars>>
     /\ IF dbFails
        THEN \* the rejected statement is not caught: nothing after it runs
             /\ last' = [called EXCEPT !.dbFailed = TRUE,
                           !.events = <<"DELETE">>, !.outcome = "threw",
                           !.error = "DatabaseError"]
             /\ UNCHANGED invoices
        ELSE /\ invoices' = Delete(invoices, id)
             /\ last' = [called EXCEPT
                           !.events = <<"DELETE", RevalidateInvoices>>,
                           !.outcome = "returned"]

\* the storage statement is reached, and so can fail, only after parse
Reaches(formData, dbFails) == dbFails => FormSchemaIssues(formData) = {}

Next ==
  \/ \E f \in FormDatas, dbFails \in BOOLEAN :
       Reaches(f, dbFails) /\ createInvoice(f, dbFails)
  \/ \E id \in IdInputs, f \in FormDatas, dbFails \in BOOLEAN :
       Reaches(f, dbFails) /\ updateInvoice(id, f, dbFails)
  \/ \E id \in IdInputs, dbFails \in BOOLEAN : deleteInvoice(id, dbFails)

Spec == Init /\ [][Next]_vars

\* ------------------------------------------------------- the query layer
ItemsPerPage == 6

UpperCase == <<"A", "B", "C", "D", "E", "F", "G", "H", "I", "J", "K", "L", "M",
               "N", "O", "P", "Q", "R", "S", "T", "U", "V", "W", "X", "Y", "Z">>

LowerCase == <<"a", "b", "c", "d", "e", "f", "g", "h", "i", "j", "k", "l", "m",
               "n", "o", "p", "q", "r", "s", "t", "u", "v", "w", "x", "y", "z">>

ToLower(c) ==
  IF \E i \in 1..Len(UpperCase) : UpperCase[i] = c
  THEN LowerCase[CHOOSE i \in 1..Len(UpperCase) : UpperCase[i] = c]
  ELSE c

Lower(s) == [i \in 1..Len(s) |-> ToLower(s[i])]

Contains(hay, needle) ==
  \E i \in 0..(Len(hay) - Len(needle)) :
    SubSeq(hay, i + 1, i + Len(needle)) = needle

\* field ILIKE '%query%'
ILike(text, query) == Contains(Lower(text), Lower(query))

DigitChar(d) == <<"0", "1", "2", "3", "4", "5", "6", "7", "8", "9">>[d + 1]

RECURSIVE NatToText(_)
NatToText(n) ==
  IF n < 10 THEN <<DigitChar(n)>>
  ELSE NatToText(n \div 10) \o <<DigitChar(n % 10)>>

RECURSIVE FracText(_, _)
FracText(f, width) ==
  IF f = 0 THEN <<>>
  ELSE <<DigitChar(f \div 10 ^ (width - 1))>>
         \o FracText(f % 10 ^ (width - 1), width - 1)

\* amount::text
AmountText(v) ==
  LET a == IF v < 0 THEN 0 - v ELSE v
  IN (IF v < 0 THEN <<"-">> ELSE <<>>)
       \o NatToText(a \div Scale)
       \o (IF a % Scale = 0 THEN <<>>
           ELSE <<".">> \o FracText(a % Scale, MaxFracDigits))

\* date::text, 'YYYY-MM-DD'
DateText(d) ==
  LET t == NatToText(d)
  IN SubSeq(t, 1, 4) \o <<"-">> \o SubSeq(t, 5, 6) \o <<"-">>
       \o SubSeq(t, 7, 8)

StatusText(st) ==
  CASE st = "pending" -> <<"p", "e", "n", "d", "i", "n", "g">>
    [] st = "paid" -> <<"p", "a", "i", "d">>

\* FROM invoices JOIN customers ON invoices.customer_id = customers.id
Joined(table) ==
  {[id |-> r.id, amount |-> r.amount, date |-> r.date, status |-> r.status,
    name |-> c.name, email |-> c.email] :
     <<r, c>> \in {p \in table \X Customers : p[1].customer_id = p[2].id}}

\* the filter of fetchFilteredInvoices and fetchInvoicesPages
MatchesAnything(row, query) == TRUE

Matches(row, query) ==
  \/ ILike(row.name, query)
  \/ ILike(row.email, query)
  \/ ILike(AmountText(row.amount), query)
  \/ ILike(DateText(row.date), query)
  \/ ILike(StatusText(row.status), query)

Filtered(table, query) == {row \in Joined(table) : Matches(row, query)}

\* ORDER BY invoices.date DESC: every order of the rows with no later
\* date after an earlier one (rows of one date come in any order)
RECURSIVE OrderingsAscending(_)
OrderingsAscending(rows) ==
  IF rows = {} THEN {<<>>}
  ELSE UNION {{<<r>> \o t : t \in OrderingsAscending(rows \ {r})} :
                r \in {x \in rows : \A y \in rows : y.date >= x.date}}

RECURSIVE Orderings(_)
Orderings(rows) ==
  IF rows = {} THEN {<<>>}
  ELSE UNION {{<<r>> \o t : t \in Orderings(rows \ {r})} :
                r \in {x \in rows : \A y \in rows : y.date <= x.date}}

\* LIMIT ItemsPerPage OFFSET (currentPage - 1) * ItemsPerPage
Page(ordered, currentPage) ==
  LET offset == (currentPage - 1) * ItemsPerPage
      upto == IF offset + ItemsPerPage < Len(ordered)
              THEN offset + ItemsPerPage ELSE Len(ordered)
  IN SubSeq(ordered, offset + 1, upto)

\* Math.ceil(count / ITEMS_PER_PAGE)
TotalPagesFloor(count) == count \div ItemsPerPage

TotalPages(count) == (count + ItemsPerPage - 1) \div ItemsPerPage

fetchFilteredInvoices(query, currentPage) ==
  /\ \E ordered \in Orderings(Filtered(invoices, query)) :
       view' = [fn |-> "fetchFilteredInvoices", query |-> query,
                page |-> currentPage, rows |-> Page(ordered, currentPage),
                totalPages |-> 0, at |-> ops]
  /\ UNCHANGED <<invoices, nextId, today, ops, last, uiVars, appVars>>

fetchInvoicesPages(query) ==
  /\ view' = [fn |-> "fetchInvoicesPages", query |-> query, page |-> 0,
              rows |-> <<>>,
              totalPages |-> TotalPages(Cardinality(Filtered(invoices, query))),
              at |-> ops]
  /\ UNCHANGED <<invoices, nextId, today, ops, last, uiVars, appVars>>

\* the stores the queries are run on: the first n rows of a table whose
\* rows alternate customers, share each date between two rows and are
\* paid every third row
SampleInvoice(i) ==
  [id |-> i, customer_id |-> IF i % 2 = 1 THEN "c1" ELSE "c2",
   amount |-> (15795 + 4553 * i) * Scale,
   status |-> IF i % 3 = 0 THEN "paid" ELSE "pending",
   date |-> 20221101 + i \div 2]

SampleStore(n) == {SampleInvoice(i) : i \in 1..n}

Queries == {
  <<>>, <<"p", "a", "i">>, <<"A", "D", "A">>, <<"@", "y">>, <<"0", "3">>,
  <<"z", "z">>}

InitQuery ==
  /\ \E n \in 0..MaxRows : invoices = SampleStore(n) /\ nextId = n + 1
  /\ today = FirstDay
  /\ ops = 0
  /\ last = Idle
  /\ view = NoView
  /\ InitUi

NextQuery ==
  \/ \E q \in Queries, page \in 1..MaxPage : fetchFilteredInvoices(q, page)
  \/ \E q \in Queries : fetchInvoicesPages(q)

SpecQuery == InitQuery /\ [][NextQuery]_vars

\* ---------------------------------------- creating and then looking
\* invoices are created on days after the seeding, and the invoices table
\* is rendered for '/dashboard/invoices' (no term, first page)
InitFlow ==
  /\ invoices = SeedInvoices
  /\ nextId = Cardinality(SeedInvoices) + 1
  /\ today \in (FirstDay + 1)..(FirstDay + 1 + MaxDays)
  /\ ops = 0
  /\ last = Idle
  /\ view = NoView
  /\ InitUi

InvoicesTable == fetchFilteredInvoices(<<>>, 1)

NextFlow ==
  \/ \E f \in FormDatas, dbFails \in BOOLEAN :
       Reaches(f, dbFails) /\ createInvoice(f, dbFails)
  \/ InvoicesTable

SpecFlow == InitFlow /\ [][NextFlow]_vars

\* ------------------------------------------------ the <Search> component
\* useDebouncedCallback(..., 300)
Wait == 300

\* the grain of the clock
Slice == Wait \div 3

\* what is typed into the search box
Terms == {<<>>, <<"a">>, <<"a", "&", " ", "b">>}

\* the parameter lists the page is opened with
StartParams == {
  <<>>,
  <<<<PageName, <<"2">>>>>>,
  <<<<QueryName, <<"a">>>>, <<PageName, <<"3">>>>>>,
  <<<<SortName, <<"u", "p">>>>, <<PageName, <<"2">>>>,
    <<QueryName, <<"b", "=">>>>, <<PageName, <<"4">>>>>>}

StartUrls == {InvoicesPath} \cup {MakeUrl(InvoicesPath, p) : p \in StartParams}

\* the body of handleSearch: the URL it hands to replace()
HandleSearchUrlKeepsPage(u, term) ==
  LET params == SearchParams(u)
  IN MakeUrl(Pathname(u),
             IF term # <<>> THEN SetParam(params, QueryName, term)
             ELSE DeleteParam(params, QueryName))

HandleSearchUrl(u, term) ==
  LET params == SetParam(SearchParams(u), PageName, <<"1">>)
  IN MakeUrl(Pathname(u),
             IF term # <<>> THEN SetParam(params, QueryName, term)
             ELSE DeleteParam(params, QueryName))

\* the timer of the debounced function has run out
ExpiredEarly(s) == s.elapsed >= Slice

Expired(s) == s.elapsed >= Wait

\* onChange: the debounced handleSearch is called with the input's value,
\* which (re)starts its timer and keeps the value for the call to come
Keystroke(term) ==
  /\ search.keys < MaxKeys
  /\ search' = [search EXCEPT !.pending = TRUE, !.term = term,
                  !.elapsed = 0, !.keys = @ + 1,
                  !.runs = IF search.pending THEN @ ELSE 0]
  /\ UNCHANGED <<invoices, nextId, today, ops, last, view, url, nav, props,
                 par, appVars>>

\* time passes while the timer runs; a timer may be served late
Elapse ==
  /\ search.pending
  /\ search.elapsed <= Wait
  /\ search' = [search EXCEPT !.elapsed = @ + Slice]
  /\ UNCHANGED <<invoices, nextId, today, ops, last, view, url, nav, props,
                 par, appVars>>

\* the timer is served: handleSearch runs with the value kept
Expire ==
  /\ search.pending
  /\ Expired(search)
  /\ url' = HandleSearchUrl(url, search.term)
  /\ nav' = [by |-> "handleSearch", arg |-> search.term, from |-> url,
             waited |-> search.elapsed]
  /\ search' = [search EXCEPT !.pending = FALSE, !.runs = @ + 1]
  /\ UNCHANGED <<invoices, nextId, today, ops, last, view, props, par,
                 appVars>>

InitSearch ==
  /\ invoices = SeedInvoices
  /\ nextId = Cardinality(SeedInvoices) + 1
  /\ today = FirstDay
  /\ ops = 0
  /\ last = Idle
  /\ view = NoView
  /\ url \in StartUrls
  /\ search = NoSearch
  /\ nav = NoNav
  /\ props = NoProps
  /\ par = NoPar
  /\ InitApp

NextSearch ==
  \/ \E term \in Terms : Keystroke(term)
  \/ Elapse
  \/ Expire

SpecSearch == InitSearch /\ [][NextSearch]_vars

\* the part of Expire that is about the timer
TimerServed ==
  /\ search.pending
  /\ Expired(search)
  /\ search' = [search EXCEPT !.pending = FALSE, !.runs = @ + 1]

\* time passes, and a running timer is served in the end
SpecSearchFair == SpecSearch /\ WF_search(Elapse) /\ WF_search(TimerServed)

\* ======================================================================
\* The invoices page and <Pagination> (/app/dashboard/invoices/page.tsx,
\* /app/ui/invoices/pagination.tsx)
\* ======================================================================
\* the values of 'page' and 'query' a URL is opened with
PageTexts ==
  {<<>>, <<"a", "b", "c">>, <<"0">>, <<"-", "3">>, <<"2", ".", "5">>,
   <<"1">>, <<"2">>, <<"1", "1">>}

QueryTexts == {<<>>, <<"a">>}

PageParams ==
  {<<>>} \cup {<<<<PageName, t>>>> : t \in PageTexts}

QueryParams ==
  {<<>>} \cup {<<<<QueryName, t>>>> : t \in QueryTexts}

OtherParams == {<<>>, <<<<SortName, <<"u", "p">>>>>>}

PageUrls ==
  {InvoicesPath} \cup
  {MakeUrl(InvoicesPath, o \o q \o p) :
     o \in OtherParams, q \in QueryParams, p \in PageParams}

\* searchParams?.query || '': an absent value and '' give ''
QueryProp(params) ==
  LET f == GetParam(params, QueryName)
  IN IF f.present /\ f.text # <<>> THEN f.text ELSE <<>>

\* Number(searchParams?.page): Number(undefined) is NaN
PageNumber(params) ==
  LET f == GetParam(params, PageName)
  IN IF f.present THEN StringToNumber(f.text) ELSE NaN

\* Number(...) || 1: NaN and 0 give 1, every other number is kept
CurrentPageProp(params) ==
  LET n == PageNumber(params)
  IN IF n.nan \/ n.v = 0 THEN Num(Scale) ELSE n

\* String(number), as '+' makes it
NumberToString(n) == AmountText(n.v)

\* key={query + currentPage}
SuspenseKey(query, currentPage) == query \o NumberToString(currentPage)

\* Page({ searchParams }): the values handed to <Table> and the query layer
RenderPage ==
  /\ LET query == QueryProp(SearchParams(url))
         currentPage == CurrentPageProp(SearchParams(url))
     IN props' = [rendered |-> TRUE, from |-> url, query |-> query,
                  currentPage |-> currentPage,
                  key |-> SuspenseKey(query, currentPage)]
  /\ props' # props
  /\ UNCHANGED <<invoices, nextId, today, ops, last, view, url, search, nav,
                 par, appVars>>

\* a link that keeps nothing of the current URL but the pathname
createPageURLAlone(u, pageNumber) ==
  MakeUrl(Pathname(u), <<<<PageName, NatToText(pageNumber)>>>>)

\* createPageURL(pageNumber) on the current URL u
createPageURL(u, pageNumber) ==
  MakeUrl(Pathname(u),
          SetParam(SearchParams(u), PageName, NatToText(pageNumber)))

\* the user follows the link <Pagination> made for a page
FollowPageLink(pageNumber) ==
  /\ url' = createPageURL(url, pageNumber)
  /\ url' # url
  /\ nav' = [by |-> "createPageURL", arg |-> NatToText(pageNumber),
             from |-> url, waited |-> 0]
  /\ UNCHANGED <<invoices, nextId, today, ops, last, view, search, props,
                 par, appVars>>

InitPage ==
  /\ invoices = SeedInvoices
  /\ nextId = Cardinality(SeedInvoices) + 1
  /\ today = FirstDay
  /\ ops = 0
  /\ last = Idle
  /\ view = NoView
  /\ url \in PageUrls
  /\ search = NoSearch
  /\ nav = NoNav
  /\ props = NoProps
  /\ par = NoPar
  /\ InitApp

NextPage ==
  \/ RenderPage
  \/ \E pageNumber \in 1..MaxPage : FollowPageLink(pageNumber)

SpecPage == InitPage /\ [][NextPage]_vars

\* the invoices page with its <Search> and its <Pagination>: the page is
\* opened at its plain URL or deep in the list
TermsTyped == {<<>>, <<"1">>, <<"a">>}

InitInvoicesPage ==
  /\ invoices = SeedInvoices
  /\ nextId = Cardinality(SeedInvoices) + 1
  /\ today = FirstDay
  /\ ops = 0
  /\ last = Idle
  /\ view = NoView
  /\ url \in {InvoicesPath,
              MakeUrl(InvoicesPath, <<<<PageName, <<"1", "1">>>>>>)}
  /\ search = NoSearch
  /\ nav = NoNav
  /\ props = NoProps
  /\ par = NoPar
  /\ InitApp

NextInvoicesPage ==
  \/ RenderPage
  \/ \E pageNumber \in 1..MaxPage : FollowPageLink(pageNumber)
  \/ \E term \in TermsTyped : Keystroke(term)
  \/ Elapse
  \/ Expire

SpecInvoicesPage == InitInvoicesPage /\ [][NextInvoicesPage]_vars

\* ======================================================================
\* Parallel data fetching: fetchCardData (/app/lib/data.ts) and the edit
\* page (/dashboard/invoices/[id]/edit/page.tsx)
\* ======================================================================
\* the promises each of the two hands to Promise.all, in program order
Fetches(who) ==
  IF who = "edit" THEN <<"fetchInvoiceById", "fetchCustomers">>
  ELSE <<"invoiceCountPromise", "customerCountPromise",
         "invoiceStatusPromise">>

Elems(seq) == {seq[i] : i \in 1..Len(seq)}

SettledNames(p) == {e.name : e \in Elems(p.settled)}

\* fetchInvoiceById(id): the invoice with this id, or undefined
fetchInvoiceById(id) ==
  IF \E i \in invoices : i.id = id THEN "invoice" ELSE "undefined"

\* SUM(amount) over every row, whatever its status
RECURSIVE SumAll(_, _)
SumAll(table, status) ==
  IF table = {} THEN 0
  ELSE LET r == CHOOSE x \in table : TRUE
       IN r.amount + SumAll(table \ {r}, status)

\* SUM(CASE WHEN status = ... THEN amount ELSE 0 END)
RECURSIVE SumWhere(_, _)
SumWhere(table, status) ==
  IF table = {} THEN 0
  ELSE LET r == CHOOSE x \in table : TRUE
       IN (IF r.status = status THEN r.amount ELSE 0)
            + SumWhere(table \ {r}, status)

\* what a fetch resolves to, read from the store as it is when the query
\* runs
ValueOf(p, name) ==
  CASE name = "fetchInvoiceById" -> fetchInvoiceById(p.id)
    [] name = "invoiceCountPromise" -> Cardinality(invoices)
    [] name = "customerCountPromise" -> Cardinality(Customers)
    [] name = "invoiceStatusPromise" ->
         [paid |-> SumWhere(invoices, "paid"),
          pending |-> SumWhere(invoices, "pending")]
    [] OTHER -> "rows"

\* the invoices a query has read
ReadBy(name) ==
  IF name \in {"fetchInvoiceById", "invoiceCountPromise",
               "invoiceStatusPromise"}
  THEN Ids(invoices) ELSE {}

\* the result of one of the promises
Result(p, name) ==
  (CHOOSE e \in Elems(p.settled) : e.name = name).value

\* the values fetchCardData returns, from the results in the order of the
\* array given to Promise.all
CardData(p) ==
  [numberOfInvoices |-> Result(p, "invoiceCountPromise"),
   numberOfCustomers |-> Result(p, "customerCountPromise"),
   totalPaidInvoices |-> Result(p, "invoiceStatusPromise").paid,
   totalPendingInvoices |-> Result(p, "invoiceStatusPromise").pending]

\* a promise that is fulfilled as soon as one of its inputs is
PromiseAny(p) ==
  IF \E e \in Elems(p.settled) : e.ok THEN "fulfilled"
  ELSE IF Len(p.settled) = Len(Fetches(p.who)) THEN "rejected"
  ELSE "pending"

\* Promise.all: rejected as soon as one input is rejected, fulfilled once
\* every input is fulfilled
PromiseAll(p) ==
  IF \E e \in Elems(p.settled) : ~e.ok THEN "rejected"
  ELSE IF Len(p.settled) = Len(Fetches(p.who)) THEN "fulfilled"
  ELSE "pending"

\* the edit page is requested for an id
EditPage(id) ==
  /\ par.pc = "done"
  /\ par' = [who |-> "edit", id |-> id, pc |-> "calls", started |-> <<>>,
             settled |-> <<>>, state |-> "loading", data |-> NoCardData]
  /\ UNCHANGED <<invoices, nextId, today, ops, last, view, url, search, nav,
                 props, appVars>>

\* fetchCardData is called
fetchCardData ==
  /\ par.pc = "done"
  /\ par' = [who |-> "cards", id |-> 0, pc |-> "calls", started |-> <<>>,
             settled |-> <<>>, state |-> "loading", data |-> NoCardData]
  /\ UNCHANGED <<invoices, nextId, today, ops, last, view, url, search, nav,
                 props, appVars>>

\* the next query is issued; after the last one the function awaits
\* Promise.all of them
Call ==
  /\ par.pc = "calls"
  /\ LET n == Len(par.started) + 1
     IN par' = [par EXCEPT
                  !.started = Append(@, Fetches(par.who)[n]),
                  !.pc = IF n = Len(Fetches(par.who)) THEN "await"
                         ELSE "calls"]
  /\ UNCHANGED <<invoices, nextId, today, ops, last, view, url, search, nav,
                 props, appVars>>

\* a query that was issued completes, with rows or with an error; no
\* promise settles before the synchronous calls are over
Settle(name, ok) ==
  /\ par.pc = "await"
  /\ name \in Elems(par.started)
  /\ name \notin SettledNames(par)
  /\ par' = [par EXCEPT
               !.settled = Append(@, [name |-> name, ok |-> ok,
                                      value |-> ValueOf(par, name),
                                      read |-> ReadBy(name)])]
  /\ UNCHANGED <<invoices, nextId, today, ops, last, view, url, search, nav,
                 props, appVars>>

\* what follows the await in the edit page: notFound() or the form
EditPageAfterAwait(p) ==
  IF \E e \in Elems(p.settled) :
       e.name = "fetchInvoiceById" /\ e.value = "undefined"
  THEN "notFound"
  ELSE "form"

\* Promise.all settles and the function goes on, or throws
Resume ==
  /\ par.pc = "await"
  /\ PromiseAll(par) # "pending"
  /\ par' = [par EXCEPT
               !.pc = "done",
               !.state = IF PromiseAll(par) = "rejected" THEN "error"
                         ELSE IF par.who = "edit"
                              THEN EditPageAfterAwait(par)
                         ELSE "data",
               !.data = IF PromiseAll(par) = "fulfilled" /\ par.who = "cards"
                        THEN CardData(par) ELSE NoCardData]
  /\ UNCHANGED <<invoices, nextId, today, ops, last, view, url, search, nav,
                 props, appVars>>

\* the stores the pages are opened on
CardStores == {SeedInvoices} \cup {SampleStore(n) : n \in {0, 3}}

InitParallel ==
  /\ invoices \in CardStores
  /\ nextId = Cardinality(invoices) + 1
  /\ today = FirstDay
  /\ ops = 0
  /\ last = Idle
  /\ view = NoView
  /\ InitUi

NextParallel ==
  \/ \E id \in IdInputs : EditPage(id)
  \/ fetchCardData
  \/ Call
  \/ \E name \in Elems(par.started), ok \in BOOLEAN : Settle(name, ok)
  \/ Resume

SpecParallel == InitParallel /\ [][NextParallel]_vars

\* fetchCardData while invoices are created, updated and deleted: every
\* query and every mutation is a request of its own to the database
CardForms ==
  {[customerId |-> Field("c1"), amount |-> Field(<<"1", "0">>),
    status |-> Field("paid")]}

NextCards ==
  \/ fetchCardData
  \/ Call
  \/ \E name \in Elems(par.started) : Settle(name, TRUE)
  \/ Resume
  \/ \E f \in CardForms : createInvoice(f, FALSE)
  \/ \E id \in IdInputs, f \in CardForms : updateInvoice(id, f, FALSE)
  \/ \E id \in IdInputs : deleteInvoice(id, FALSE)

SpecCards == Init /\ [][NextCards]_vars

\* ======================================================================
\* The home page of the React project (app/page.jsx, app/like-button.js)
\* ======================================================================
DefaultTitle ==
  <<"D", "e", "f", "a", "u", "l", "t", " ", "t", "i", "t", "l", "e">>

\* the title of page.jsx
ShipTitle ==
  <<"D", "e", "v", "e", "l", "o", "p", ".", " ", "P", "r", "e", "v", "i",
    "e", "w", ".", " ", "S", "h", "i", "p", ".">>

RECURSIVE TitlesOfLen(_)
TitlesOfLen(n) ==
  IF n = 0 THEN {<<>>}
  ELSE {<<c>> \o t : c \in {"a", " "}, t \in TitlesOfLen(n - 1)}

\* what <Header> is given: no title prop, or a string
TitleInputs ==
  {Absent, Field(ShipTitle), Field(DefaultTitle)}
    \cup {Field(t) : t \in UNION {TitlesOfLen(n) : n \in 0..MaxTitleLen}}

\* a Header that renders the prop as it is
HeaderAsGiven(title) == title.text

\* title ? title : 'Default title': undefined and '' are falsy
Header(title) ==
  IF title.present /\ title.text # <<>> THEN title.text ELSE DefaultTitle

\* setLikes(likes + 1), with the likes of the render the handler is from
handleClick(h) ==
  [h EXCEPT !.queue = Append(@, h.likes + 1), !.clicks = @ + 1]

\* LikeButton(): useState gives the last value set, the button shows it
LikeButton(h) ==
  LET likes == IF h.queue = <<>> THEN h.state ELSE h.queue[Len(h.queue)]
  IN [h EXCEPT !.state = likes, !.likes = likes, !.queue = <<>>]

\* updates that wait for a later render
FlushLater(h) == h

\* React renders the updates of a click before the next event is handled
Flush(h) == LikeButton(h)

\* HomePage(): <Header> and <LikeButton> are rendered
HomePage ==
  /\ home' = [LikeButton(home) EXCEPT !.h1 = Header(home.passed),
                                      !.rendered = TRUE]
  /\ UNCHANGED <<invoices, nextId, today, ops, last, view, uiVars, dash>>

\* the user clicks the button
Click ==
  /\ home.rendered
  /\ home.clicks < MaxClicks
  /\ home' = Flush(handleClick(home))
  /\ UNCHANGED <<invoices, nextId, today, ops, last, view, uiVars, dash>>

InitHome ==
  /\ invoices = SeedInvoices
  /\ nextId = Cardinality(SeedInvoices) + 1
  /\ today = FirstDay
  /\ ops = 0
  /\ last = Idle
  /\ view = NoView
  /\ url = InvoicesPath
  /\ search = NoSearch
  /\ nav = NoNav
  /\ props = NoProps
  /\ par = NoPar
  /\ dash = NoDash
  /\ \E title \in TitleInputs : home = [NoHome EXCEPT !.passed = title]

NextHome == HomePage \/ Click

SpecHome == InitHome /\ [][NextHome]_vars

\* ======================================================================
\* The dashboard overview page (/app/dashboard/(overview)/page.tsx) and
\* <RevenueChart> (/app/ui/dashboard/revenue-chart.tsx)
\* ======================================================================
\* setTimeout(resolve, 3000) in fetchRevenue, in seconds
RevenueDelay == 3

\* the fetches the page itself awaits, in the order of its statements
PageFetches(version) ==
  IF version = "sequential"
  THEN <<"fetchRevenue", "fetchLatestInvoices", "fetchCardData">>
  ELSE <<"fetchLatestInvoices", "fetchCardData">>

Began(d) == {e[2] : e \in {x \in Elems(d.events) : x[1] = "start"}}

Ended(d) == {e[2] : e \in {x \in Elems(d.events) : x[1] = "end"}}

Failed(d) == {e[2] : e \in {x \in Elems(d.events) : x[1] = "fail"}}

\* a page that calls its fetches without awaiting the one before
MayStartAtOnce(d, k) == TRUE

\* await: the k-th statement runs when the fetches before it have returned
MayStart(d, k) ==
  \A j \in 1..(k - 1) : PageFetches(d.version)[j] \in Ended(d)

\* a boundary with no fallback
ChartSlotNoFallback(d) ==
  IF "fetchRevenue" \in Ended(d) THEN "chart" ELSE "none"

\* <Suspense fallback={<RevenueChartSkeleton />}><RevenueChart /></Suspense>
ChartSlot(d) ==
  IF "fetchRevenue" \in Ended(d) THEN "chart" ELSE "skeleton"

\* the dashboard is requested
Dashboard(version) ==
  /\ dash.pc = "done"
  /\ dash' = [NoDash EXCEPT !.version = version, !.pc = "run"]
  /\ UNCHANGED <<invoices, nextId, today, ops, last, view, uiVars, home>>

\* a second goes by
Tick ==
  /\ dash.pc = "run"
  /\ dash.clock < MaxClock
  /\ dash' = [dash EXCEPT !.clock = @ + 1]
  /\ UNCHANGED <<invoices, nextId, today, ops, last, view, uiVars, home>>

\* the page reaches its next await and calls the fetch
StartFetch ==
  /\ dash.pc = "run"
  /\ ~dash.ui
  /\ LET fetches == PageFetches(dash.version)
         k == Cardinality(Began(dash) \cap Elems(fetches)) + 1
     IN /\ k <= Len(fetches)
        /\ MayStart(dash, k)
        /\ dash' = [dash EXCEPT
                      !.events = Append(@, <<"start", fetches[k]>>),
                      !.began = IF fetches[k] = "fetchRevenue"
                                THEN dash.clock ELSE @]
  /\ UNCHANGED <<invoices, nextId, today, ops, last, view, uiVars, home>>

\* a fetch returns its data or throws; fetchRevenue does so no sooner
\* than its delay.  A fetch of the page that throws ends the page, one of
\* <RevenueChart> ends the chart
FinishFetch(name, ok) ==
  /\ dash.pc = "run"
  /\ name \in Began(dash) \ (Ended(dash) \cup Failed(dash))
  /\ name = "fetchRevenue" => dash.clock - dash.began >= RevenueDelay
  /\ LET d == [dash EXCEPT
                 !.events = Append(@, <<IF ok THEN "end" ELSE "fail", name>>)]
         ofChart == dash.ui /\ name = "fetchRevenue"
     IN dash' = [d EXCEPT
                   !.pc = IF ~ok \/ ofChart THEN "done" ELSE @,
                   !.chart = IF ~ofChart THEN @
                             ELSE IF ok THEN ChartSlot(d) ELSE "error"]
  /\ UNCHANGED <<invoices, nextId, today, ops, last, view, uiVars, home>>

\* the page returns its JSX and the UI is shown.  The sequential page
\* hands the revenue to the chart; the streaming page renders
\* <RevenueChart>, which calls fetchRevenue and suspends
ShowPage ==
  /\ dash.pc = "run"
  /\ ~dash.ui
  /\ Elems(PageFetches(dash.version)) \subseteq Ended(dash)
  /\ IF dash.version = "sequential"
     THEN dash' = [dash EXCEPT !.ui = TRUE, !.shownAt = dash.clock,
                               !.chart = "chart", !.pc = "done"]
     ELSE LET d == [dash EXCEPT
                      !.ui = TRUE, !.shownAt = dash.clock,
                      !.events = Append(@, <<"start", "fetchRevenue">>),
                      !.began = dash.clock]
          IN dash' = [d EXCEPT
                        !.chart = ChartSlot(d),
                        !.fallbacks = IF ChartSlot(d) = "skeleton"
                                      THEN @ + 1 ELSE @]
  /\ UNCHANGED <<invoices, nextId, today, ops, last, view, uiVars, home>>

DashFetches == {"fetchRevenue", "fetchLatestInvoices", "fetchCardData"}

InitDash ==
  /\ invoices = SeedInvoices
  /\ nextId = Cardinality(SeedInvoices) + 1
  /\ today = FirstDay
  /\ ops = 0
  /\ last = Idle
  /\ view = NoView
  /\ InitUi

NextDash ==
  \/ \E version \in {"sequential", "streaming"} : Dashboard(version)
  \/ Tick
  \/ StartFetch
  \/ \E name \in DashFetches, ok \in BOOLEAN : FinishFetch(name, ok)
  \/ ShowPage

SpecDash == InitDash /\ [][NextDash]_vars

\* ======================================================================
\* Properties of the mutation layer
\* ======================================================================
IsInteger(v) == v % Scale = 0

\* Math.round: the nearest integer, halves upwards
Round(v) == ((v + Scale \div 2) \div Scale) * Scale

Validated == last.op \in {"createInvoice", "updateInvoice"} /\ last.issues = {}

Rejected == last.op \in {"createInvoice", "updateInvoice"} /\ last.issues # {}

Has(events, e) == \E i \in 1..Len(events) : events[i] = e

\* C1: for every create or update whose input passes validation, the amount
\* written to storage is an integer >= 0 equal to round(input amount x 100)
C1_StoredAmountIsRoundedCents ==
  Validated =>
    /\ IsInteger(last.written)
    /\ last.written >= 0
    /\ last.written = Round(last.amount.v * 100)

\* C2: every stored invoice has a non-negative integer amount and a status
\* that is exactly 'pending' or 'paid'
C2_StoreInvariant ==
  \A r \in invoices :
    /\ IsInteger(r.amount)
    /\ r.amount >= 0
    /\ r.status \in InvoiceStatus

\* C3: create and update accept an input only if the customer reference is
\* present, the amount is text that coerces to a positive number and the
\* status is 'pending' or 'paid'; every other input is rejected
C3_AcceptsOnlyWellFormedInput ==
  last.op \in {"createInvoice", "updateInvoice"} =>
    (last.issues = {} <=>
       /\ last.input.customerId.present
       /\ last.input.amount.present
       /\ ~StringToNumber(last.input.amount.text).nan
       /\ StringToNumber(last.input.amount.text).v > 0
       /\ last.input.status.present
       /\ last.input.status.text \in {"pending", "paid"})

\* C4: a validation failure in create or update is returned to the caller
\* as a value carrying the field-level messages; the action does not throw
C4_ValidationFailureIsReturned ==
  Rejected => last.outcome = "returned" /\ last.error = "none"

\* C5: in each of the three mutations a failed storage statement is caught
\* and logged, the cache invalidation (and for create and update the
\* redirect) follows as on success, and nothing propagates to the caller
C5_StorageFailureIsCaught ==
  last.dbFailed =>
    /\ Has(last.events, "console.error")
    /\ Has(last.events, RevalidateInvoices)
    /\ last.op \in {"createInvoice", "updateInvoice"}
         => Has(last.events, RedirectInvoices)
    /\ last.outcome # "threw"

\* C6: deleteInvoice with an identifier that is not in the store completes
\* without error, leaves the store unchanged and still signals the cache
\* invalidation; so does the second of two deletes of one identifier
C6_DeleteOfMissingIdIsNoOp ==
  [][(last'.op = "deleteInvoice" /\ ops' # ops /\ ~last'.dbFailed
        /\ last'.id \notin Ids(invoices))
       => /\ invoices' = invoices
          /\ last'.outcome = "returned"
          /\ last'.error = "none"
          /\ Has(last'.events, RevalidateInvoices)]_vars

\* a seeded invoice that is gone is deleted once more
C6_Witness ==
  /\ last.op = "deleteInvoice"
  /\ last.id \in Ids(SeedInvoices)
  /\ last.id \notin last.idsBefore
  /\ last.outcome = "returned"
  /\ Ids(invoices) = last.idsBefore

\* C7: every successful mutation signals that '/dashboard/invoices' is
\* stale; create and update end with a redirect to it, delete never
\* redirects
C7_RevalidateAndRedirect ==
  /\ (last.op # "none" /\ last.issues = {} /\ ~last.dbFailed)
       => Has(last.events, RevalidateInvoices)
  /\ (Validated /\ ~last.dbFailed)
       => /\ last.events[Len(last.events)] = RedirectInvoices
          /\ last.outcome = "redirected"
  /\ last.op = "deleteInvoice"
       => ~Has(last.events, RedirectInvoices) /\ last.outcome # "redirected"

C7_Witness ==
  /\ last.op = "updateInvoice"
  /\ last.issues = {}
  /\ ~last.dbFailed
  /\ last.outcome = "redirected"
  /\ \E r \in invoices : r.id = last.id /\ r.amount = last.written

Statements == {"INSERT", "UPDATE", "DELETE"}

StatementOf(op) ==
  CASE op = "createInvoice" -> "INSERT"
    [] op = "updateInvoice" -> "UPDATE"
    [] op = "deleteInvoice" -> "DELETE"

\* C8: an invocation whose input passes validation issues exactly one
\* storage write, of the kind of the operation: create one INSERT (one
\* invoice more), update one UPDATE (same identifiers), delete one DELETE
\* (at most the invoice with that identifier disappears)
C8_ExactlyOneWrite ==
  (last.op # "none" /\ last.issues = {}) =>
    /\ Cardinality({i \in 1..Len(last.events) : last.events[i] \in Statements})
         = 1
    /\ last.events[1] = StatementOf(last.op)
    /\ ~last.dbFailed =>
         /\ last.op = "createInvoice"
              => /\ Cardinality(invoices) = Cardinality(last.idsBefore) + 1
                 /\ last.idsBefore \subseteq Ids(invoices)
         /\ last.op = "updateInvoice" => Ids(invoices) = last.idsBefore
         /\ last.op = "deleteInvoice"
              => /\ Ids(invoices) \subseteq last.idsBefore
                 /\ last.idsBefore \ Ids(invoices) \subseteq {last.id}
    /\ Cardinality(invoices) = Cardinality(Ids(invoices))

\* an update of an identifier no invoice has
C8_Witness ==
  /\ last.op = "updateInvoice"
  /\ last.issues = {}
  /\ ~last.dbFailed
  /\ last.id \notin last.idsBefore
  /\ ops = 2

\* the input does not pass FormSchema
FailsSchema(input) ==
  \/ ~input.customerId.present
  \/ ToNumber(input.amount).nan
  \/ ~input.status.present
  \/ input.status.text \notin {"pending", "paid"}

\* C26: when validation fails in createInvoice or updateInvoice nothing
\* else happens: the store is unchanged, no cache invalidation is signalled
\* and no redirect is issued
C26_ValidationFailureStopsTheAction ==
  [][(ops' # ops /\ last'.op \in {"createInvoice", "updateInvoice"}
        /\ FailsSchema(last'.input))
       => /\ invoices' = invoices
          /\ nextId' = nextId
          /\ last'.events = <<>>
          /\ last'.outcome # "redirected"]_vars

\* an update of a seeded invoice with a status that is no status
C26_Witness ==
  /\ last.op = "updateInvoice"
  /\ last.id \in Ids(SeedInvoices)
  /\ "status" \in last.issues
  /\ last.events = <<>>
  /\ invoices = SeedInvoices
  /\ ops = 1

\* C27: updateInvoice(id, input) changes only the customer reference, the
\* amount and the status of the invoice with identifier id; its identifier
\* and date and every other invoice stay, and when no invoice has the
\* identifier the store is unchanged while invalidation and redirect still
\* happen
C27_UpdateFrame ==
  [][(ops' # ops /\ last'.op = "updateInvoice")
       => /\ Ids(invoices') = Ids(invoices)
          /\ \A r \in invoices :
               \E r2 \in invoices' :
                 /\ r2.id = r.id
                 /\ r2.date = r.date
                 /\ r.id # last'.id => r2 = r
          /\ Cardinality(invoices') = Cardinality(invoices)
          /\ nextId' = nextId
          /\ (last'.id \notin Ids(invoices) /\ ~FailsSchema(last'.input))
               => /\ invoices' = invoices
                  /\ Has(last'.events, RevalidateInvoices)
                  /\ Has(last'.events, RedirectInvoices)]_vars

\* invoice 2 has a new customer and amount, its date and invoice 1 are as
\* seeded
C27_Witness ==
  /\ last.op = "updateInvoice"
  /\ last.id = 2
  /\ ops = 1
  /\ \E r \in invoices :
       /\ r.id = 2
       /\ r.customer_id = "c1"
       /\ r.amount = last.written
       /\ r.date = 20221114
       /\ r \notin SeedInvoices
  /\ \E r \in invoices : r.id = 1 /\ r \in SeedInvoices

\* C15: in createInvoice and updateInvoice the redirect is reached only if
\* the storage statement inside the try block succeeded
C15_RedirectOnlyAfterSuccess ==
  (last.op \in {"createInvoice", "updateInvoice"}
     /\ Has(last.events, RedirectInvoices))
    => ~last.dbFailed

Before(events, a, b) ==
  \A i \in 1..Len(events) :
    events[i] = b => \E j \in 1..(i - 1) : events[j] = a

\* C17: in every mutation the invalidation of '/dashboard/invoices' is
\* signalled only after the storage write of the invocation has finished,
\* and in create and update the redirect only after the invalidation
C17_WriteThenRevalidateThenRedirect ==
  last.op # "none" =>
    /\ Before(last.events, StatementOf(last.op), RevalidateInvoices)
    /\ Before(last.events, RevalidateInvoices, RedirectInvoices)
    /\ \A i \in 1..Len(last.events) :
         last.events[i] \in Statements => i = 1

C17_Witness ==
  /\ last.op = "createInvoice"
  /\ last.events = <<"INSERT", RevalidateInvoices, RedirectInvoices>>
  /\ \E r \in invoices : r.id = last.id

\* C16: after a successful createInvoice and its redirect the new invoice
\* is the first row of page 1 of the invoices table (no search term),
\* whatever the store held before
C16_NewInvoiceOnTop ==
  (/\ view.fn = "fetchFilteredInvoices"
   /\ view.query = <<>>
   /\ view.page = 1
   /\ view.at = ops
   /\ last.op = "createInvoice"
   /\ last.issues = {}
   /\ ~last.dbFailed)
    => Len(view.rows) >= 1 /\ view.rows[1].id = last.id

\* ======================================================================
\* Properties of the query layer
\* ======================================================================
Min(a, b) == IF a < b THEN a ELSE b

Max(a, b) == IF a < b THEN b ELSE a

\* the text of the row holds the term, whatever the case of either
Holds(text, term) ==
  \E i \in 1..(Len(text) - Len(term) + 1) :
    \A k \in 1..Len(term) : ToLower(text[i + k - 1]) = ToLower(term[k])

HasTerm(row, term) ==
  \E text \in {row.name, row.email, AmountText(row.amount),
               DateText(row.date), StatusText(row.status)} :
    Holds(text, term)

\* C9: every invoice fetchFilteredInvoices returns is an invoice of the
\* store with a searchable field (name, email, amount, date, status) that
\* contains the term case-insensitively; the empty term excludes nothing
C9_ResultsMatchTheTerm ==
  view.fn = "fetchFilteredInvoices" =>
    /\ \A i \in 1..Len(view.rows) :
         /\ view.rows[i] \in Joined(invoices)
         /\ HasTerm(view.rows[i], view.query)
    /\ view.query = <<>> =>
         Len(view.rows)
           = Max(0, Min(6, Cardinality(invoices) - 6 * (view.page - 1)))

\* a term in upper case finds, and only finds, the rows of customer 'Ada'
C9_Witness ==
  /\ view.fn = "fetchFilteredInvoices"
  /\ view.query = <<"A", "D", "A">>
  /\ Len(view.rows) = 6
  /\ Cardinality(invoices) = 13
  /\ \A i \in 1..6 : view.rows[i].name = <<"A", "d", "a">>

MatchCount(term) == Cardinality({row \in Joined(invoices) : HasTerm(row, term)})

\* C10: fetchFilteredInvoices returns at most 6 invoices, and
\* fetchInvoicesPages returns ceil(m / 6) for m matching invoices (0 pages
\* for no match, 2 pages for 12 matches)
C10_PageSizeAndTotalPages ==
  /\ view.fn = "fetchFilteredInvoices" => Len(view.rows) <= 6
  /\ view.fn = "fetchInvoicesPages" =>
       LET m == MatchCount(view.query)
       IN /\ 6 * view.totalPages >= m
          /\ 6 * (view.totalPages - 1) < m
          /\ m = 0 => view.totalPages = 0
          /\ m = 12 => view.totalPages = 2

C10_Witness ==
  /\ view.fn = "fetchInvoicesPages"
  /\ MatchCount(view.query) = 12
  /\ view.totalPages = 2

\* C11: the invoices of a page are ordered by date descending, and every
\* invoice of page p has a date greater than or equal to that of every
\* invoice of page p + 1 of the same term and store
C11_OrderedByDateDescending ==
  /\ [](view.fn = "fetchFilteredInvoices" =>
          \A i \in 1..Len(view.rows) : \A j \in i..Len(view.rows) :
            view.rows[i].date >= view.rows[j].date)
  /\ [][(/\ view.fn = "fetchFilteredInvoices"
         /\ view'.fn = "fetchFilteredInvoices"
         /\ view'.query = view.query
         /\ view'.page = view.page + 1
         /\ invoices' = invoices)
        => \A i \in 1..Len(view.rows) : \A j \in 1..Len(view'.rows) :
             view.rows[i].date >= view'.rows[j].date]_vars

\* the second page of twelve invoices starts with the later of two
\* invoices of one date, the earlier one having gone to the first page
C11_Witness ==
  /\ view.fn = "fetchFilteredInvoices"
  /\ view.query = <<>>
  /\ view.page = 2
  /\ Cardinality(invoices) = 12
  /\ Len(view.rows) = 6
  /\ view.rows[1].id = 7
  /\ view.rows[1].date > view.rows[6].date

RowIds(rows) == {rows[i].id : i \in 1..Len(rows)}

\* C28: for a fixed search term and an unchanged store the pages
\* 1..totalPages contain every matching invoice exactly once, also when
\* invoices share a date: two different pages never list the same invoice,
\* and a page after the last one lists none
C28_PagesPartitionTheMatches ==
  [][(/\ view.fn = "fetchFilteredInvoices"
      /\ view'.fn = "fetchFilteredInvoices"
      /\ view'.query = view.query
      /\ invoices' = invoices)
       => /\ view'.page # view.page
               => RowIds(view'.rows) \cap RowIds(view.rows) = {}
          /\ view'.page > TotalPages(MatchCount(view'.query))
               => view'.rows = <<>>]_vars

\* ======================================================================
\* Properties of the presentation layer
\* ======================================================================
\* the value the parameter 'query' must have for a term
QueryFor(term) == IF term = <<>> THEN Absent ELSE Field(term)

\* the handleSearch that was pending has just run
Ran == search.pending /\ ~search'.pending

\* C18: the debounced handleSearch updates the URL only when 300 ms have
\* passed since the last keystroke: every keystroke before that restarts
\* the timer, a burst of keystrokes causes exactly one update of the URL,
\* and the update carries the term of the last keystroke
C18_Debounce ==
  /\ [](/\ nav.by = "handleSearch" => nav.waited >= 300
        /\ search.runs <= 1
        /\ (search.keys > 0 /\ ~search.pending) => search.runs = 1
        /\ search.pending => search.runs = 0)
  /\ [][search'.keys > search.keys
          => search'.pending /\ search'.elapsed = 0 /\ url' = url]_vars
  /\ [][url' # url => Ran]_vars
  /\ [][Ran => /\ search.elapsed >= 300
               /\ GetParam(SearchParams(url'), QueryName)
                    = QueryFor(search.term)]_vars
  /\ (search.pending ~> ~search.pending)

\* three keystrokes, then the one update of the URL the page was opened with
C18_Witness ==
  /\ search.keys = 3
  /\ ~search.pending
  /\ search.runs = 1
  /\ nav.from = InvoicesPath
  /\ nav.arg = <<"a", "&", " ", "b">>
  /\ nav.waited > 300
  /\ GetParam(SearchParams(url), QueryName) = Field(<<"a", "&", " ", "b">>)

NotSearchParam(p) == p[1] \notin {QueryName, PageName}

NotPageParam(p) == p[1] # PageName

Count(params, name) ==
  Cardinality({i \in 1..Len(params) : params[i][1] = name})

\* C19: when handleSearch runs with term t the resulting URL has page = 1,
\* has query = t if t is not empty and no query parameter if it is, and
\* its pathname and every other parameter are those of the URL before
C19_HandleSearchUrl ==
  nav.by = "handleSearch" =>
    LET before == SearchParams(nav.from)
        after == SearchParams(url)
    IN /\ GetParam(after, PageName) = Field(<<"1">>)
       /\ Count(after, PageName) = 1
       /\ GetParam(after, QueryName) = QueryFor(nav.arg)
       /\ Count(after, QueryName) = (IF nav.arg = <<>> THEN 0 ELSE 1)
       /\ SelectSeq(after, NotSearchParam) = SelectSeq(before, NotSearchParam)
       /\ Pathname(url) = Pathname(nav.from)

\* the search box is emptied on a URL with a query, two pages and a sort
C19_Witness ==
  /\ nav.by = "handleSearch"
  /\ nav.arg = <<>>
  /\ Count(SearchParams(nav.from), PageName) = 2
  /\ HasParam(SearchParams(nav.from), QueryName)
  /\ SearchParams(url) = <<<<SortName, <<"u", "p">>>>, <<PageName, <<"1">>>>>>

\* a text that names a positive integer
IsPageNumeral(t) ==
  /\ t # <<>>
  /\ \A i \in 1..Len(t) : IsDigit(t[i])
  /\ \E i \in 1..Len(t) : t[i] # "0"

\* C12: for every value of the URL parameters the invoices page hands on a
\* query that defaults to the empty string and a currentPage that is a
\* positive integer, equal to 1 when 'page' is absent or unusable
C12_PagePropsAreUsable ==
  props.rendered =>
    LET query == GetParam(SearchParams(props.from), QueryName)
        page == GetParam(SearchParams(props.from), PageName)
    IN /\ props.query = (IF query.present THEN query.text ELSE <<>>)
       /\ ~props.currentPage.nan
       /\ IsInteger(props.currentPage.v)
       /\ props.currentPage.v >= Scale
       /\ (~page.present \/ ~IsPageNumeral(page.text))
            => props.currentPage = Num(Scale)

\* C20: createPageURL(n) gives a URL on the current pathname whose page is
\* n and whose other parameters, query among them, are those of the current
\* URL, so following a page link never changes the search term
C20_CreatePageURL ==
  nav.by = "createPageURL" =>
    LET before == SearchParams(nav.from)
        after == SearchParams(url)
    IN /\ GetParam(after, PageName) = Field(nav.arg)
       /\ Count(after, PageName) = 1
       /\ SelectSeq(after, NotPageParam) = SelectSeq(before, NotPageParam)
       /\ GetParam(after, QueryName) = GetParam(before, QueryName)
       /\ Pathname(url) = Pathname(nav.from)
       /\ (props.rendered /\ props.from \in {url, nav.from})
            => props.query = QueryProp(before)

\* page 3 of a sorted search for 'a' is opened from its page 2 and rendered
C20_Witness ==
  /\ nav.by = "createPageURL"
  /\ nav.arg = <<"3">>
  /\ nav.from = MakeUrl(InvoicesPath, <<<<SortName, <<"u", "p">>>>,
                                        <<QueryName, <<"a">>>>,
                                        <<PageName, <<"2">>>>>>)
  /\ url = MakeUrl(InvoicesPath, <<<<SortName, <<"u", "p">>>>,
                                   <<QueryName, <<"a">>>>,
                                   <<PageName, <<"3">>>>>>)
  /\ props.rendered
  /\ props.from = url
  /\ props.query = <<"a">>
  /\ props.currentPage = Num(3 * Scale)

\* C30: the Suspense key of the invoices table (query + currentPage) is
\* different for any two different pairs of query and currentPage, so every
\* change of the search term or of the page number gives a new key
C30_SuspenseKeyIsInjective ==
  [][(/\ props.rendered
      /\ props'.rendered
      /\ <<props'.query, props'.currentPage>>
           # <<props.query, props.currentPage>>)
       => props'.key # props.key]_vars

\* ======================================================================
\* Properties of parallel data fetching
\* ======================================================================
\* fetchInvoiceById has resolved to this value
LookupGave(value) ==
  \E e \in Elems(par.settled) :
    e.name = "fetchInvoiceById" /\ e.ok /\ e.value = value

RECURSIVE Total(_)
Total(amounts) ==
  IF amounts = <<>> THEN 0 ELSE Head(amounts) + Total(Tail(amounts))

\* the amounts of the invoices of a status, by ascending identifier
AmountsOf(statuses) ==
  LET Amounts[n \in 0..nextId] ==
        IF n = 0 THEN <<>>
        ELSE Amounts[n - 1]
               \o (IF \E r \in invoices : r.id = n /\ r.status \in statuses
                   THEN <<(CHOOSE r \in invoices : r.id = n).amount>>
                   ELSE <<>>)
  IN Amounts[nextId]

C29_CardDataIsOneSnapshot ==
  (par.who = "cards" /\ par.state = "data") =>
    \A e1 \in Elems(par.settled), e2 \in Elems(par.settled) :
      (e1.name = "invoiceCountPromise" /\ e2.name = "invoiceStatusPromise")
        => e1.read = e2.read

\* C13: when the edit page is opened for an id for which fetchInvoiceById
\* finds no invoice it ends in the 'not found' state, never in the form and
\* never in the error state; when the invoice exists it never ends in
\* 'not found'
C13_NotFoundState ==
  (par.who = "edit" /\ par.pc = "done") =>
    /\ LookupGave("undefined") => par.state = "notFound"
    /\ (\E i \in invoices : i.id = par.id) => par.state # "notFound"

\* C14: every fetch is started before any of them is awaited, and the
\* result is produced only after all of them have resolved, in whatever
\* order they complete
C14_PromiseAll ==
  /\ (par.pc = "await" \/ par.settled # <<>>)
       => par.started = Fetches(par.who)
  /\ par.state \in {"data", "form", "notFound"}
       => /\ SettledNames(par) = Elems(Fetches(par.who))
          /\ \A e \in Elems(par.settled) : e.ok
  /\ par.pc = "done" => par.state # "loading"
  /\ par.state = "error" => \E e \in Elems(par.settled) : ~e.ok

\* the three queries of fetchCardData complete in the reverse of the order
\* they were issued in, and the data is returned
C14_Witness ==
  /\ par.who = "cards"
  /\ par.state = "data"
  /\ par.started = <<"invoiceCountPromise", "customerCountPromise",
                     "invoiceStatusPromise">>
  /\ [i \in 1..Len(par.settled) |-> par.settled[i].name]
       = <<"invoiceStatusPromise", "customerCountPromise",
           "invoiceCountPromise">>

\* ======================================================================
\* Properties of the home page
\* ======================================================================
\* C23: the count of the LikeButton starts at 0 and every click raises the
\* count shown by exactly 1, so after n clicks the button shows n, however
\* clicks and renders of the component interleave
C23_LikesCountClicks ==
  /\ [](home.rendered => home.likes = home.clicks)
  /\ [](home.clicks = 0 => home.likes = 0)
  /\ [][home'.clicks # home.clicks
          => /\ home'.clicks = home.clicks + 1
             /\ home'.likes = home.likes + 1]_vars
  /\ [][home'.clicks = home.clicks => home'.likes = home.likes]_vars

\* three clicks, with the page rendered again after them
C23_Witness ==
  /\ home.rendered
  /\ home.clicks = 3
  /\ home.likes = 3
  /\ home.state = 3
  /\ home.queue = <<>>

\* C24: Header renders the title it is given, and 'Default title' when it
\* is given none or the empty string; one of the two is rendered for every
\* input
C24_HeaderTitle ==
  home.rendered =>
    /\ (home.passed.present /\ home.passed.text # <<>>)
         => home.h1 = home.passed.text
    /\ (~home.passed.present \/ home.passed.text = <<>>)
         => home.h1 = DefaultTitle
    /\ home.h1 \in {home.passed.text, DefaultTitle}
    /\ home.h1 # <<>>

\* the empty string is passed and the default is rendered
C24_Witness ==
  /\ home.rendered
  /\ home.passed = Field(<<>>)
  /\ home.h1 = DefaultTitle

\* ======================================================================
\* Properties of the dashboard overview page
\* ======================================================================
\* the place of an event among the page's events, 0 when it is not there
At(d, what, name) ==
  IF <<what, name>> \in Elems(d.events)
  THEN CHOOSE i \in 1..Len(d.events) : d.events[i] = <<what, name>>
  ELSE 0

StartsAfterEndOf(d, later, earlier) ==
  later \in Began(d) =>
    /\ earlier \in Ended(d)
    /\ At(d, "end", earlier) < At(d, "start", later)

\* C22: in the sequential page fetchLatestInvoices starts only after
\* fetchRevenue has completed, fetchCardData only after
\* fetchLatestInvoices has completed, and the page's UI is shown only
\* when all three have completed, so never before fetchRevenue's delay
C22_SequentialWaterfall ==
  dash.version = "sequential" =>
    /\ StartsAfterEndOf(dash, "fetchLatestInvoices", "fetchRevenue")
    /\ StartsAfterEndOf(dash, "fetchCardData", "fetchLatestInvoices")
    /\ dash.ui => DashFetches \subseteq Ended(dash)
    /\ dash.ui => dash.shownAt >= RevenueDelay

\* the three fetches one after the other, then the UI
C22_Witness ==
  /\ dash.version = "sequential"
  /\ dash.ui
  /\ dash.events = <<
       <<"start", "fetchRevenue">>, <<"end", "fetchRevenue">>,
       <<"start", "fetchLatestInvoices">>, <<"end", "fetchLatestInvoices">>,
       <<"start", "fetchCardData">>, <<"end", "fetchCardData">> >>

\* C21: with <RevenueChart> inside <Suspense> the page's UI is shown
\* while fetchRevenue has not resolved; from then until fetchRevenue
\* resolves the skeleton is in the chart's place, and from then on the
\* chart is, the skeleton having come up once in the render
C21_ChartStreams ==
  /\ [](dash.version = "streaming" /\ dash.ui =>
          /\ "fetchRevenue" \notin Ended(dash) \cup Failed(dash)
               => dash.chart = "skeleton"
          /\ "fetchRevenue" \in Ended(dash) => dash.chart = "chart"
          /\ dash.fallbacks = 1)
  /\ [][dash'.version = "streaming" /\ ~dash.ui /\ dash'.ui
          => /\ "fetchRevenue" \notin Ended(dash')
             /\ dash'.chart = "skeleton"]_vars
  /\ [][dash.chart = "chart" => dash'.chart # "skeleton"]_vars
  /\ [][dash.chart = "skeleton" /\ dash'.chart = "chart"
          => "fetchRevenue" \in Ended(dash') \ Ended(dash)]_vars

\* the page is there from the start, and the chart after the delay
C21_Witness ==
  /\ dash.version = "streaming"
  /\ dash.ui
  /\ dash.shownAt = 0
  /\ dash.clock = RevenueDelay
  /\ dash.chart = "chart"
  /\ dash.fallbacks = 1

====
